---- MODULE Spec2Model ----
(***************************************************************************)
(* Model of src/src/lib.rs: the scheduling Facade of a spaced-repetition   *)
(* system.  A Facade owns an ordered pool of not-yet-due items             *)
(* (BTreeSet<TaskWrapper<T>>), a vector of due items, a desired retention  *)
(* and a shared algorithm state.                                           *)
(*                                                                         *)
(* Time is counted in whole seconds.  desired_retention is counted in      *)
(* tenths (5 is 0.5, 9 is 0.9, 10 is 1.0).  One call of a Facade method is *)
(* one action; the clock does not advance inside a call.                   *)
(*                                                                         *)
(* The item algorithm T: Task is a type parameter of the Facade.  It is    *)
(* instantiated here with a small schedule in the style of the algorithms  *)
(* the Facade is used with: an item stores the time of its last review and *)
(* a stability, and is due again after stability * Factor(state,           *)
(* retention) seconds.                                                     *)
(***************************************************************************)
EXTENDS Integers, Sequences, FiniteSets, TLC

VARIABLES name, tasks_pool, tasks_to_recall, desired_retention, state, now, call

vars == <<name, tasks_pool, tasks_to_recall, desired_retention, state, now, call>>

----------------------------------------------------------------------------
(* Bounds of the model. *)

\* Largest number of items a Facade holds at once (guard of insert).
MaxTasks == 2
\* Number of clock ticks the model follows.
MaxTicks == 2
\* TaskId values are drawn from 1..MaxId.
MaxId == 2
\* The shared state takes the values 0..MaxState.
MaxState == 1

----------------------------------------------------------------------------
(* Program constants. *)

\* Duration::from_secs(10) in find_tasks_to_recall.
Lookahead == 10
\* The retention 0.5 that TaskWrapper's eq and cmp pass to next_repetition.
CmpRetention == 5
\* Default::default() of T::SharedState, as used by eq, cmp and Facade::new.
DefaultState == 0

\* The instant the model starts at, and the length of one clock tick.
T0 == 10 * Lookahead
TickLen == Lookahead \div 2

----------------------------------------------------------------------------
(* The item algorithm (trait Task). *)

Blocks == {"q1", "q2"}

\* Retention 1.0, in tenths.
FullRetention == 2 * CmpRetention

\* How much longer an interval gets per unit of stability.
Factor(st, ret) == (1 + st) * (FullRetention - ret)

\* Task::next_repetition(&self, shared_state, desired_retention) -> SystemTime
next_repetition(task, st, ret) == task.last + task.stab * Factor(st, ret)

\* Task::get_blocks(&self): the content template of an item.
get_blocks(task) == task.blocks

\* Task::new(input): a fresh item for a template; `first` is the instant
\* the algorithm makes a new item due at.
TaskNew(input, first) == [blocks |-> input, last |-> first, stab |-> 0]

\* The instants a new item can be due at: the epoch or the creation time.
NewFirsts(t) == {0, t}

\* Stabilities a review can leave an item with.
ReviewStabs == {1, 3}

\* Task::complete on success: the item after a review at instant t.
TaskCompleted(task, t, stab) == [task EXCEPT !.last = t, !.stab = stab]

\* The shared state after a review: the review may or may not move it.
StatesAfterReview(st) == {st, IF st < MaxState THEN st + 1 ELSE st}

\* The items a caller hands to insert.
InsertTasks ==
    { [blocks |-> "q1", last |-> T0 + 9, stab |-> 0],
      [blocks |-> "q2", last |-> T0 + 15, stab |-> 0],
      [blocks |-> "q1", last |-> T0 + 110, stab |-> 0],
      [blocks |-> "q2", last |-> T0, stab |-> 4] }

----------------------------------------------------------------------------
(* TaskWrapper and the ordered pool. *)

Ids == 1..MaxId

\* TaskWrapper { task, id }
Wrap(task, id) == [task |-> task, id |-> id]

\* The value TaskWrapper's eq and cmp compare: next_repetition under the
\* default shared state and retention 0.5.
CmpKey(w) == next_repetition(w.task, DefaultState, CmpRetention)

\* impl PartialEq for TaskWrapper
WrapperEq(a, b) == CmpKey(a) = CmpKey(b)

\* impl Ord for TaskWrapper: a <= b
WrapperLe(a, b) == CmpKey(a) <= CmpKey(b)

\* BTreeSet::insert: a value equal (by eq) to a member is not inserted.
BTreeInsert(pool, w) ==
    IF \E x \in pool : WrapperEq(x, w) THEN pool ELSE pool \cup {w}

\* BTreeSet::first
PoolFirst(pool) == CHOOSE w \in pool : \A x \in pool : WrapperLe(w, x)

\* BTreeSet iteration order: ascending by cmp.
RECURSIVE PoolSeq(_)
PoolSeq(pool) ==
    IF pool = {} THEN <<>>
    ELSE LET f == PoolFirst(pool) IN <<f>> \o PoolSeq(pool \ {f})

\* BTreeSet::extend: insert the elements of a sequence in order.
RECURSIVE BTreeExtend(_, _)
BTreeExtend(pool, ws) ==
    IF ws = <<>> THEN pool
    ELSE BTreeExtend(BTreeInsert(pool, Head(ws)), Tail(ws))

Range(ws) == {ws[i] : i \in 1..Len(ws)}

----------------------------------------------------------------------------
(* Facade methods as functions of the Facade's fields. *)

\* tasks_total
TasksTotal(pool, recall) == Cardinality(pool) + Len(recall)

\* A find_tasks_to_recall that forgets to put the popped entry back when it
\* is not due.
RECURSIVE FindTasksToRecall_NoPutBack(_, _, _, _, _)
FindTasksToRecall_NoPutBack(pool, recall, st, ret, t) ==
    IF pool = {} THEN [pool |-> pool, recall |-> recall, iters |-> 0]
    ELSE LET task == PoolFirst(pool)
             rest == pool \ {task}
         IN  IF next_repetition(task.task, st, ret) <= t + Lookahead
             THEN LET r == FindTasksToRecall_NoPutBack(rest, Append(recall, task),
                                                       st, ret, t)
                  IN  [r EXCEPT !.iters = @ + 1]
             ELSE [pool |-> rest, recall |-> recall, iters |-> 1]

\* A find_tasks_to_recall that compares with now instead of now + 10 s.
RECURSIVE FindTasksToRecall_NoLookahead(_, _, _, _, _)
FindTasksToRecall_NoLookahead(pool, recall, st, ret, t) ==
    IF pool = {} THEN [pool |-> pool, recall |-> recall, iters |-> 0]
    ELSE LET task == PoolFirst(pool)
             rest == pool \ {task}
         IN  IF next_repetition(task.task, st, ret) <= t
             THEN LET r == FindTasksToRecall_NoLookahead(rest, Append(recall, task),
                                                         st, ret, t)
                  IN  [r EXCEPT !.iters = @ + 1]
             ELSE [pool |-> BTreeInsert(rest, task), recall |-> recall, iters |-> 1]

\* A find_tasks_to_recall that tests the time the pool is ordered by
\* (default shared state, retention 0.5) instead of the current one.
RECURSIVE FindTasksToRecall_ByCmpKey(_, _, _, _, _)
FindTasksToRecall_ByCmpKey(pool, recall, st, ret, t) ==
    IF pool = {} THEN [pool |-> pool, recall |-> recall, iters |-> 0]
    ELSE LET task == PoolFirst(pool)
             rest == pool \ {task}
         IN  IF CmpKey(task) <= t + Lookahead
             THEN LET r == FindTasksToRecall_ByCmpKey(rest, Append(recall, task),
                                                      st, ret, t)
                  IN  [r EXCEPT !.iters = @ + 1]
             ELSE [pool |-> BTreeInsert(rest, task), recall |-> recall, iters |-> 1]

\* find_tasks_to_recall at instant t: the fields after the loop, and the
\* number of times the loop body ran.
RECURSIVE FindTasksToRecall(_, _, _, _, _)
FindTasksToRecall(pool, recall, st, ret, t) ==
    IF pool = {} THEN [pool |-> pool, recall |-> recall, iters |-> 0]
    ELSE LET task == PoolFirst(pool)
             rest == pool \ {task}
         IN  IF next_repetition(task.task, st, ret) <= t + Lookahead
             THEN LET r == FindTasksToRecall(rest, Append(recall, task), st, ret, t)
                  IN  [r EXCEPT !.iters = @ + 1]
             ELSE [pool |-> BTreeInsert(rest, task), recall |-> recall, iters |-> 1]

\* reload_all_tasks_timings at instant t.
ReloadAllTasksTimings(pool, recall, st, ret, t) ==
    LET Later(w) == next_repetition(w.task, st, ret) > t
        Stays(w) == ~Later(w)
        not_to_recall == SelectSeq(recall, Later)
        recall1 == SelectSeq(recall, Stays)
        pool1 == BTreeExtend(pool, not_to_recall)
        Earlier(w) == next_repetition(w.task, st, ret) < t
        to_recall == SelectSeq(PoolSeq(pool1), Earlier)
    IN  [pool |-> pool1 \ Range(to_recall), recall |-> recall1 \o to_recall]

\* Vec::swap_remove(index): the last element takes the place of the removed.
SwapRemove(ws, i) ==
    LET n == Len(ws)
    IN  [j \in 1..(n - 1) |-> IF j = i THEN ws[n] ELSE ws[j]]

----------------------------------------------------------------------------
(* The record of the last call: the method called and what it returned.    *)
(* ret is the returned variant, dur the Duration carried by                *)
(* NoTaskToComplete, out the Facade returned by migrate.                   *)

\* Facade::new(name, desired_retention)
FacadeNew(nm, ret) ==
    [name |-> nm, pool |-> {}, recall |-> <<>>, retention |-> ret,
     state |-> DefaultState]

NoFacade == FacadeNew("none", 0)

Called(op, ret, dur, out) == [op |-> op, ret |-> ret, dur |-> dur, out |-> out]

----------------------------------------------------------------------------
(* Actions. *)

\* The retentions a Facade is created with.
InitRetentions == {5, 9}

\* The values a caller passes to set_desired_retention (12 is 1.2).
RetentionInputs == {5, 9, 12}

States == 0..MaxState

Init ==
    /\ name = "deck"
    /\ \E ret \in InitRetentions :
          /\ tasks_pool = FacadeNew(name, ret).pool
          /\ tasks_to_recall = FacadeNew(name, ret).recall
          /\ desired_retention = FacadeNew(name, ret).retention
          /\ state = FacadeNew(name, ret).state
    /\ now = T0
    /\ call = Called("new", "none", 0, NoFacade)

\* SystemTime::now() moves on between calls.
Tick ==
    /\ now < T0 + MaxTicks * TickLen
    /\ now' = now + TickLen
    /\ call' = Called("tick", "none", 0, NoFacade)
    /\ UNCHANGED <<name, tasks_pool, tasks_to_recall, desired_retention, state>>

\* The body of Facade::insert(task); id is the value of rand::random().
InsertEntry(task, id) ==
    /\ tasks_pool' = BTreeInsert(tasks_pool, Wrap(task, id))
    /\ call' = Called("insert", "none", 0, NoFacade)
    /\ UNCHANGED <<name, tasks_to_recall, desired_retention, state, now>>

\* Facade::insert(task), while the Facade holds fewer than MaxTasks items.
Insert(task, id) ==
    /\ TasksTotal(tasks_pool, tasks_to_recall) < MaxTasks
    /\ InsertEntry(task, id)

\* Facade::create_task(input) is insert(T::new(input)).
CreateTask(input, first, id) ==
    /\ TasksTotal(tasks_pool, tasks_to_recall) < MaxTasks
    /\ tasks_pool' = BTreeInsert(tasks_pool, Wrap(TaskNew(input, first), id))
    /\ call' = Called("create_task", "none", 0, NoFacade)
    /\ UNCHANGED <<name, tasks_to_recall, desired_retention, state, now>>

\* Facade::remove(id)
Remove(id) ==
    LET in_recall == \E i \in 1..Len(tasks_to_recall) : tasks_to_recall[i].id = id
        in_pool == \E w \in tasks_pool : w.id = id
        Other(w) == w.id # id
        removed == in_recall \/ in_pool
    IN  /\ tasks_to_recall' = SelectSeq(tasks_to_recall, Other)
        /\ tasks_pool' = IF in_recall THEN tasks_pool
                         ELSE {w \in tasks_pool : Other(w)}
        /\ call' = Called("remove", IF removed THEN "true" ELSE "false", 0, NoFacade)
        /\ UNCHANGED <<name, desired_retention, state, now>>

\* Facade::find_tasks_to_recall()
FindTasks ==
    LET r == FindTasksToRecall(tasks_pool, tasks_to_recall, state,
                               desired_retention, now)
    IN  /\ tasks_pool' = r.pool
        /\ tasks_to_recall' = r.recall
        /\ call' = Called("find_tasks_to_recall", "none", 0, NoFacade)
        /\ UNCHANGED <<name, desired_retention, state, now>>

\* Facade::set_desired_retention(desired_retention)
SetDesiredRetention(v) ==
    LET r == ReloadAllTasksTimings(tasks_pool, tasks_to_recall, state, v, now)
    IN  /\ desired_retention' = v
        /\ tasks_pool' = r.pool
        /\ tasks_to_recall' = r.recall
        /\ call' = Called("set_desired_retention", "none", 0, NoFacade)
        /\ UNCHANGED <<name, state, now>>

\* An optimize that also re-partitions the entries after the refit.
Optimize_Reloading(st) ==
    LET r == ReloadAllTasksTimings(tasks_pool, tasks_to_recall, st,
                                   desired_retention, now)
    IN  /\ state' = st
        /\ tasks_pool' = r.pool
        /\ tasks_to_recall' = r.recall
        /\ call' = Called("optimize", "none", 0, NoFacade)
        /\ UNCHANGED <<name, desired_retention, now>>

\* Facade::optimize(): SharedStateExt::optimize refits the shared state to st.
Optimize(st) ==
    /\ state' = st
    /\ call' = Called("optimize", "none", 0, NoFacade)
    /\ UNCHANGED <<name, tasks_pool, tasks_to_recall, desired_retention, now>>

\* The partitions after the advance step of complete_task.
Advanced ==
    FindTasksToRecall(tasks_pool, tasks_to_recall, state, desired_retention, now)

\* A take_random_task that always takes the first entry.
TakeRandomTask_First(recall, index) ==
    [task |-> recall[1], recall |-> Tail(recall)]

\* take_random_task: gen_range picked index (from 1), swap_remove takes it.
TakeRandomTask(recall, index) ==
    [task |-> recall[index], recall |-> SwapRemove(recall, index)]

\* The entry complete_task puts back after a review that left stability stab.
Reviewed(sel, t, stab) == Wrap(TaskCompleted(sel.task, t, stab), sel.id)

\* complete_task when an entry is due and the interaction succeeds: the
\* review leaves the item with stability stab and the shared state at st.
CompleteTaskOk(index, stab, st) ==
    /\ index \in 1..Len(Advanced.recall)
    /\ st \in StatesAfterReview(state)
    /\ LET taken == TakeRandomTask(Advanced.recall, index)
       IN  /\ tasks_to_recall' = taken.recall
           /\ tasks_pool' = BTreeInsert(Advanced.pool, Reviewed(taken.task, now, stab))
    /\ state' = st
    /\ call' = Called("complete_task", "Ok", 0, NoFacade)
    /\ UNCHANGED <<name, desired_retention, now>>

\* complete_task when an entry is due and the interaction returns Err: the
\* `?` returns before tasks_pool.insert, and the taken entry is dropped.
CompleteTaskIoError(index, st) ==
    /\ index \in 1..Len(Advanced.recall)
    /\ st \in StatesAfterReview(state)
    /\ tasks_to_recall' = TakeRandomTask(Advanced.recall, index).recall
    /\ tasks_pool' = Advanced.pool
    /\ state' = st
    /\ call' = Called("complete_task", "Io", 0, NoFacade)
    /\ UNCHANGED <<name, desired_retention, now>>

\* SystemTime::duration_since(now).unwrap_or_default()
DurationSinceOrDefault(t, t0) == IF t >= t0 THEN t - t0 ELSE 0

\* The Duration of NoTaskToComplete for a non-empty pool.
TimeUntilNextRepetition(pool, st, ret, t) ==
    DurationSinceOrDefault(next_repetition(PoolFirst(pool).task, st, ret), t)

\* complete_task when nothing is due after the advance step.
CompleteTaskNothing ==
    /\ Advanced.recall = <<>>
    /\ tasks_pool' = Advanced.pool
    /\ tasks_to_recall' = Advanced.recall
    /\ call' = IF Advanced.pool = {}
               THEN Called("complete_task", "NoTask", 0, NoFacade)
               ELSE Called("complete_task", "NoTaskToComplete",
                           TimeUntilNextRepetition(Advanced.pool, state,
                                                   desired_retention, now),
                           NoFacade)
    /\ UNCHANGED <<name, desired_retention, state, now>>

\* The loop of migrate: create_task for each template, in order.
RECURSIVE MigrateLoop(_, _, _, _)
MigrateLoop(facade, templates, firsts, ids) ==
    IF templates = <<>> THEN facade
    ELSE MigrateLoop(
             [facade EXCEPT !.pool =
                 BTreeInsert(@, Wrap(TaskNew(Head(templates), Head(firsts)), Head(ids)))],
             Tail(templates), Tail(firsts), Tail(ids))

\* The templates migrate collects: the pool in order, then tasks_to_recall.
TaskTemplates(pool, recall) ==
    LET all == PoolSeq(pool) \o recall
    IN  [i \in 1..Len(all) |-> get_blocks(all[i].task)]

\* Facade::migrate(): the new Facade is returned, self is not changed.
\* firsts and ids are what T::new and rand::random give for each template.
Migrate(firsts, ids) ==
    /\ call' = Called("migrate", "none", 0,
                      MigrateLoop(FacadeNew(name, desired_retention),
                                  TaskTemplates(tasks_pool, tasks_to_recall),
                                  firsts, ids))
    /\ UNCHANGED <<name, tasks_pool, tasks_to_recall, desired_retention, state, now>>

\* The choices of T::new and rand::random over n templates.
FirstsFor(n) == [1..n -> NewFirsts(now)]
IdsFor(n) == [1..n -> Ids]

\* Facade::until_next_repetition(): None, or Some(duration) with the
\* duration in dur.  `first()?` gives None for an empty pool and
\* duration_since(..).ok() gives None when the time is already past.
UntilNextRepetition ==
    /\ call' =
         IF Len(tasks_to_recall) > 0 THEN Called("until_next_repetition", "None", 0, NoFacade)
         ELSE IF tasks_pool = {} THEN Called("until_next_repetition", "None", 0, NoFacade)
         ELSE LET t == next_repetition(PoolFirst(tasks_pool).task, state,
                                       desired_retention)
              IN  IF t >= now
                  THEN Called("until_next_repetition", "Some", t - now, NoFacade)
                  ELSE Called("until_next_repetition", "None", 0, NoFacade)
    /\ UNCHANGED <<name, tasks_pool, tasks_to_recall, desired_retention, state, now>>

Next ==
    \/ Tick
    \/ \E task \in InsertTasks, id \in Ids : Insert(task, id)
    \/ \E input \in Blocks, first \in NewFirsts(now), id \in Ids :
          CreateTask(input, first, id)
    \/ \E id \in Ids : Remove(id)
    \/ FindTasks
    \/ \E v \in RetentionInputs : SetDesiredRetention(v)
    \/ \E st \in States : Optimize(st)
    \/ \E index \in 1..MaxTasks, stab \in ReviewStabs, st \in States :
          CompleteTaskOk(index, stab, st)
    \/ \E index \in 1..MaxTasks, st \in States : CompleteTaskIoError(index, st)
    \/ CompleteTaskNothing
    \/ UntilNextRepetition

Spec == Init /\ [][Next]_vars

\* The same calls, and migrate (which reads the Facade and leaves it alone).
NextMigrate ==
    \/ Next
    \/ \E firsts \in FirstsFor(TasksTotal(tasks_pool, tasks_to_recall)),
          ids \in IdsFor(TasksTotal(tasks_pool, tasks_to_recall)) :
          Migrate(firsts, ids)

SpecMigrate == Init /\ [][NextMigrate]_vars

----------------------------------------------------------------------------
(* Vocabulary of the properties. *)

\* The next-repetition time of an entry under the Facade's current shared
\* state and desired retention.
Due(w) == next_repetition(w.task, state, desired_retention)

\* The entries of both partitions, and their ids.
Entries(pool, recall) == pool \cup Range(recall)
IdsOf(pool, recall) == {w.id : w \in Entries(pool, recall)}

\* The call that has just returned.
Returned(op) == call.op = op

----------------------------------------------------------------------------
(* C1: after find_tasks_to_recall returns, every entry still in tasks_pool *)
(* has a next-repetition time, under the current shared state and desired  *)
(* retention, strictly greater than now + 10 s.                            *)
C1_NoDueEntryLeftInPool ==
    Returned("find_tasks_to_recall") =>
        \A w \in tasks_pool : Due(w) > now + Lookahead

(* C2: after set_desired_retention returns, every entry of tasks_to_recall *)
(* has a next-repetition time <= now and every entry of tasks_pool has a   *)
(* next-repetition time > now, under the new retention and the current     *)
(* shared state; a pool entry due exactly now has been moved.              *)
C2_PartitionsReconciled ==
    Returned("set_desired_retention") =>
        /\ \A i \in 1..Len(tasks_to_recall) : Due(tasks_to_recall[i]) <= now
        /\ \A w \in tasks_pool : Due(w) > now

\* tasks_total before and after a step.
Total == TasksTotal(tasks_pool, tasks_to_recall)
TotalAfter == TasksTotal(tasks_pool', tasks_to_recall')

(* C3: when the interaction callback fails during complete_task, the       *)
(* selected entry is requeued: the ids held in the two partitions and      *)
(* tasks_total are the same after the failed call as before it.            *)
C3_FailedReviewKeepsEntry ==
    [][(call'.op = "complete_task" /\ call'.ret = "Io") =>
          /\ IdsOf(tasks_pool', tasks_to_recall') = IdsOf(tasks_pool, tasks_to_recall)
          /\ TotalAfter = Total]_vars

(* C4: when complete_task succeeds, tasks_pool afterwards holds an entry   *)
(* with the id of the selected entry and the updated task, that id is no   *)
(* longer in tasks_to_recall, and tasks_total is unchanged.                *)
C4_ReviewedEntryKept ==
    [][\A index \in 1..MaxTasks, stab \in ReviewStabs, st \in States :
          CompleteTaskOk(index, stab, st) =>
              LET sel == Advanced.recall[index]
              IN  /\ Reviewed(sel, now, stab) \in tasks_pool'
                  /\ \A i \in 1..Len(tasks_to_recall') : tasks_to_recall'[i].id # sel.id
                  /\ TotalAfter = Total]_vars

(* C5: insert(item) adds a wrapped entry for the item to tasks_pool,       *)
(* raises tasks_total by exactly 1 (also when a pool entry has the same    *)
(* next-repetition time) and leaves tasks_to_recall unchanged.             *)
C5_InsertAddsEntry ==
    [][\A task \in InsertTasks, id \in Ids :
          Insert(task, id) =>
              /\ Wrap(task, id) \in tasks_pool'
              /\ TotalAfter = Total + 1
              /\ tasks_to_recall' = tasks_to_recall]_vars

(* C6: remove(id) returns true and lowers tasks_total by exactly 1 iff id  *)
(* was in one of the partitions; otherwise it returns false and changes    *)
(* neither partition.  Entries with another id keep their place.           *)
C6_RemoveTakesOneEntry ==
    [][\A id \in Ids :
          Remove(id) =>
              LET present == id \in IdsOf(tasks_pool, tasks_to_recall)
                  Other(w) == w.id # id
              IN  /\ present => call'.ret = "true" /\ TotalAfter = Total - 1
                  /\ ~present => /\ call'.ret = "false"
                                 /\ tasks_pool' = tasks_pool
                                 /\ tasks_to_recall' = tasks_to_recall
                  /\ {w \in tasks_pool' : Other(w)} = {w \in tasks_pool : Other(w)}
                  /\ SelectSeq(tasks_to_recall', Other)
                         = SelectSeq(tasks_to_recall, Other)]_vars

(* C7: in every reachable state every id of tasks_pool and tasks_to_recall *)
(* occurs exactly once across the two.                                     *)
C7_IdsUnique ==
    /\ \A v, w \in tasks_pool : v.id = w.id => v = w
    /\ \A i, j \in 1..Len(tasks_to_recall) :
          tasks_to_recall[i].id = tasks_to_recall[j].id => i = j
    /\ \A w \in tasks_pool : \A i \in 1..Len(tasks_to_recall) :
          tasks_to_recall[i].id # w.id

\* The least next-repetition time of the pool under the current shared
\* state and desired retention.
MinDue(pool) == CHOOSE d \in {Due(w) : w \in pool} : \A w \in pool : d <= Due(w)

(* C8: NoTaskToComplete carries the least next-repetition time over all    *)
(* pool entries (current shared state and retention) minus now, and zero   *)
(* when that time is already past.                                         *)
C8_WaitIsUntilLeastDue ==
    (Returned("complete_task") /\ call.ret = "NoTaskToComplete") =>
        call.dur = DurationSinceOrDefault(MinDue(tasks_pool), now)

Empty == tasks_pool = {} /\ tasks_to_recall = <<>>

(* C9: complete_task returns NoTask iff both partitions are empty at the   *)
(* call; after it has returned NoTask the Facade is empty and stays empty  *)
(* through every call that is not insert or create_task, so every later    *)
(* complete_task returns NoTask until one of those is called.              *)
C9_NoTaskIffEmpty ==
    [][/\ call'.op = "complete_task" => (call'.ret = "NoTask" <=> Empty)
       /\ (call'.op = "complete_task" /\ call'.ret = "NoTask") => Empty'
       /\ (Empty /\ call'.op \notin {"insert", "create_task"}) => Empty']_vars

\* complete_task has just returned NoTask.
C9_NoTaskReturned == Returned("complete_task") /\ call.ret = "NoTask"

\* The number of entries of a Facade with template b.
TemplateCount(pool, recall, b) ==
    Cardinality({w \in pool : get_blocks(w.task) = b})
        + Cardinality({i \in 1..Len(recall) : get_blocks(recall[i].task) = b})

(* C10: the Facade migrate returns has the tasks_total of the source and   *)
(* the same multiset of content templates.                                 *)
C10_MigrateKeepsCountAndTemplates ==
    Returned("migrate") =>
        /\ TasksTotal(call.out.pool, call.out.recall) = Total
        /\ \A b \in Blocks :
              TemplateCount(call.out.pool, call.out.recall, b)
                  = TemplateCount(tasks_pool, tasks_to_recall, b)

\* desired_retention values in (0, 1], in tenths.
ValidRetention(v) == 0 < v /\ v <= FullRetention

(* C11: set_desired_retention(value) with value outside (0, 1] fails       *)
(* validation: desired_retention and both partitions are left unchanged,   *)
(* so desired_retention is in (0, 1] in every state reached from a Facade  *)
(* created with a valid retention.                                         *)
C11_InvalidRetentionRejected ==
    [][/\ \A v \in RetentionInputs :
             (SetDesiredRetention(v) /\ ~ValidRetention(v)) =>
                 /\ desired_retention' = desired_retention
                 /\ tasks_pool' = tasks_pool
                 /\ tasks_to_recall' = tasks_to_recall
       /\ ValidRetention(desired_retention')]_vars

(* C12: until_next_repetition returns None (no wait) when tasks_to_recall  *)
(* is non-empty; with tasks_to_recall empty and tasks_pool non-empty it    *)
(* returns Some(duration until the first pool entry is due), also when     *)
(* that time has passed (zero then); it returns the nothing-scheduled      *)
(* result only when tasks_pool is empty.                                   *)
C12_UntilNextRepetitionCases ==
    Returned("until_next_repetition") =>
        /\ tasks_to_recall # <<>> => call.ret = "None"
        /\ (tasks_to_recall = <<>> /\ tasks_pool # {}) =>
               /\ call.ret = "Some"
               /\ call.dur = TimeUntilNextRepetition(tasks_pool, state,
                                                     desired_retention, now)
        /\ (tasks_to_recall = <<>> /\ tasks_pool = {}) => call.ret = "None"

----------------------------------------------------------------------------
(* The scenario of C13: on an empty Facade at instant t, insert three      *)
(* items due at t - 1 s, t + 5 s and t + 100 s, call find_tasks_to_recall, *)
(* then complete_task with an interaction that succeeds.                   *)

ScenarioTime == T0 + Lookahead

Item1 == [blocks |-> "q1", last |-> ScenarioTime - 1, stab |-> 0]
Item2 == [blocks |-> "q2", last |-> ScenarioTime + 5, stab |-> 0]
Item3 == [blocks |-> "q1", last |-> ScenarioTime + 100, stab |-> 0]
ScenarioItems == {Item1, Item2, Item3}

TasksIn(ws) == {w.task : w \in ws}

ScenarioInit ==
    /\ name = "deck"
    /\ \E ret \in InitRetentions :
          /\ tasks_pool = FacadeNew(name, ret).pool
          /\ tasks_to_recall = FacadeNew(name, ret).recall
          /\ desired_retention = FacadeNew(name, ret).retention
          /\ state = FacadeNew(name, ret).state
    /\ now = ScenarioTime
    /\ call = Called("new", "none", 0, NoFacade)

ScenarioInsert ==
    /\ call.op \in {"new", "insert"}
    /\ \E task \in ScenarioItems \ TasksIn(tasks_pool), id \in Ids :
          InsertEntry(task, id)

ScenarioFind ==
    /\ call.op = "insert"
    /\ TasksIn(tasks_pool) = ScenarioItems
    /\ FindTasks

ScenarioComplete ==
    /\ call.op = "find_tasks_to_recall"
    /\ \E index \in 1..Cardinality(ScenarioItems), stab \in ReviewStabs, st \in States :
          CompleteTaskOk(index, stab, st)

ScenarioNext ==
    \/ ScenarioInsert
    \/ ScenarioFind
    \/ ScenarioComplete

SpecScenario == ScenarioInit /\ [][ScenarioNext]_vars

----------------------------------------------------------------------------
(* C14: optimize changes only the shared state: the entries (ids and       *)
(* tasks) of tasks_pool and of tasks_to_recall, the name and               *)
(* desired_retention are the same after the call as before, and the refit  *)
(* result is the Facade's shared state afterwards.                         *)
C14_OptimizeChangesOnlyState ==
    [][call'.op = "optimize" =>
          /\ tasks_pool' = tasks_pool
          /\ tasks_to_recall' = tasks_to_recall
          /\ name' = name
          /\ desired_retention' = desired_retention
          /\ state' \in States]_vars

\* optimize has refitted the shared state of a Facade that holds entries in
\* both partitions.
C14_OptimizedWithEntries ==
    /\ Returned("optimize")
    /\ state # DefaultState
    /\ tasks_pool # {}
    /\ tasks_to_recall # <<>>

(* C15: in every reachable state the first element of tasks_pool has the   *)
(* least next-repetition time of the pool under the current                *)
(* desired_retention and shared state.                                     *)
C15_PoolFirstIsLeastDue ==
    tasks_pool # {} => Due(PoolFirst(tasks_pool)) = MinDue(tasks_pool)

\* The entries find_tasks_to_recall has appended to tasks_to_recall.
Appended(before, after) == SubSeq(after, Len(before) + 1, Len(after))

(* C16: find_tasks_to_recall only moves entries from tasks_pool to         *)
(* tasks_to_recall: every entry it moves had a next-repetition time        *)
(* <= now + 10 s, the entries already in tasks_to_recall stay, none moves  *)
(* from tasks_to_recall to tasks_pool, and the ids of the two partitions   *)
(* and tasks_total are unchanged.                                          *)
C16_FindOnlyMovesDueEntries ==
    [][call'.op = "find_tasks_to_recall" =>
          LET moved == Appended(tasks_to_recall, tasks_to_recall')
          IN  /\ Len(tasks_to_recall') >= Len(tasks_to_recall)
              /\ SubSeq(tasks_to_recall', 1, Len(tasks_to_recall)) = tasks_to_recall
              /\ \A i \in 1..Len(moved) :
                    /\ moved[i] \in tasks_pool
                    /\ Due(moved[i]) <= now + Lookahead
              /\ tasks_pool' = tasks_pool \ Range(moved)
              /\ Len(moved) = Cardinality(Range(moved))
              /\ IdsOf(tasks_pool', tasks_to_recall')
                     = IdsOf(tasks_pool, tasks_to_recall)
              /\ TotalAfter = Total]_vars

\* find_tasks_to_recall has returned with entries in both partitions.
C16_FoundSomeLeftSome ==
    /\ Returned("find_tasks_to_recall")
    /\ tasks_to_recall # <<>>
    /\ tasks_pool # {}
    /\ \A i \in 1..Len(tasks_to_recall) : Due(tasks_to_recall[i]) <= now + Lookahead

(* C17: set_desired_retention only moves entries between the partitions:   *)
(* the ids of the two partitions and tasks_total are the same after the    *)
(* call as before, also when an entry moved back from tasks_to_recall has  *)
(* the same next-repetition time as an entry of tasks_pool.                *)
C17_SetRetentionKeepsEntries ==
    [][call'.op = "set_desired_retention" =>
          /\ IdsOf(tasks_pool', tasks_to_recall') = IdsOf(tasks_pool, tasks_to_recall)
          /\ TotalAfter = Total]_vars

\* How often w occurs in the sequence ws.
Count(ws, w) == Cardinality({i \in 1..Len(ws) : ws[i] = w})

\* rest is ws without one occurrence of ws[i], in any order.
Remaining(ws, i, rest) ==
    /\ Len(rest) = Len(ws) - 1
    /\ \A w \in Range(ws) :
          Count(rest, w) = Count(ws, w) - (IF w = ws[i] THEN 1 ELSE 0)

\* A complete_task step that handed an entry to the interaction.
ReviewStep == call'.op = "complete_task" /\ call'.ret \in {"Ok", "Io"}

(* C18, as stated: the entry complete_task hands to the interaction is a   *)
(* member of tasks_to_recall at selection time and its next-repetition     *)
(* time under the shared state and desired_retention current then is       *)
(* <= now + 10 s; any member can be selected and the others stay.          *)
C18_SelectedIsDue ==
    [][\A index \in 1..MaxTasks, stab \in ReviewStabs, st \in States :
          (CompleteTaskOk(index, stab, st) \/ CompleteTaskIoError(index, st)) =>
              /\ TakeRandomTask(Advanced.recall, index).task \in Range(Advanced.recall)
              /\ Due(TakeRandomTask(Advanced.recall, index).task) <= now + Lookahead
              /\ Remaining(Advanced.recall, index, tasks_to_recall')]_vars

(* C18, amended: the entry complete_task hands to the interaction is a     *)
(* member of tasks_to_recall at selection time (after the advance step);   *)
(* any member can be the one selected and the other members stay in        *)
(* tasks_to_recall.  (Its next-repetition time under the shared state      *)
(* current at selection time can be later than now + 10 s.)                *)
C18_SelectedIsMember ==
    [][ReviewStep =>
          /\ Advanced.recall # <<>>
          /\ \E index \in 1..Len(Advanced.recall) :
                Remaining(Advanced.recall, index, tasks_to_recall')
          /\ \A index \in 1..Len(Advanced.recall) :
                LET taken == TakeRandomTask(Advanced.recall, index)
                IN  /\ taken.task = Advanced.recall[index]
                    /\ Remaining(Advanced.recall, index, taken.recall)]_vars

\* A review has been completed and another due entry is still waiting.
C18_ReviewedOneOfSeveral ==
    /\ Returned("complete_task")
    /\ call.ret = "Ok"
    /\ tasks_to_recall # <<>>

(* C19: when complete_task returns NoTask or NoTaskToComplete the Facade   *)
(* is unchanged: tasks_pool, tasks_to_recall, the shared state,            *)
(* desired_retention and name are as before the call (the interaction,     *)
(* which alone could change the shared state, was not run).                *)
C19_NothingDueChangesNothing ==
    [][(call'.op = "complete_task" /\ call'.ret \in {"NoTask", "NoTaskToComplete"}) =>
          /\ tasks_pool' = tasks_pool
          /\ tasks_to_recall' = tasks_to_recall
          /\ state' = state
          /\ desired_retention' = desired_retention
          /\ name' = name]_vars

\* complete_task has returned NoTaskToComplete for a pool of several entries.
C19_NothingDueYet ==
    /\ Returned("complete_task")
    /\ call.ret = "NoTaskToComplete"
    /\ Cardinality(tasks_pool) > 1

(* C20: find_tasks_to_recall terminates: from a pool of n entries its loop *)
(* body runs at most n + 1 times, each run either moves exactly one entry  *)
(* from tasks_pool to tasks_to_recall or puts the popped entry back and    *)
(* stops, and the loop stops when the pool is empty.                       *)
C20_FindLoopBounded ==
    [][call'.op = "find_tasks_to_recall" =>
          LET iters == FindTasksToRecall(tasks_pool, tasks_to_recall, state,
                                         desired_retention, now).iters
              moved == Len(tasks_to_recall') - Len(tasks_to_recall)
          IN  /\ iters <= Cardinality(tasks_pool) + 1
              /\ moved = Cardinality(tasks_pool) - Cardinality(tasks_pool')
              /\ iters \in {moved, moved + 1}
              /\ iters = moved + 1 =>
                    /\ tasks_pool' # {}
                    /\ Due(PoolFirst(tasks_pool')) > now + Lookahead
              /\ iters = moved => tasks_pool' = {}]_vars

\* find_tasks_to_recall has emptied a pool of several entries.
C20_FoundAll ==
    /\ Returned("find_tasks_to_recall")
    /\ tasks_pool = {}
    /\ Len(tasks_to_recall) > 1

====
